---- MODULE Spec2Model ----
(***************************************************************************)
(* Model of the task queue store of systray-queue-app (taskQueue in        *)
(* src/unnamed/part_000): the in-memory slice q.Tasks, the mutex q.mu, the  *)
(* file queue.json as os.WriteFile / os.ReadFile see it, and the store      *)
(* operations enqueue, peek, getAll, skip, complete, move, renderQueueList  *)
(* and the tooltip length read, called from two threads of control (the     *)
(* event-loop goroutine and the UI thread).  Around the store: the          *)
(* add-task dialogs (the file picker of src/main.go, the clipboard paste of *)
(* src/unnamed/part_000), tryClipboard, decodeDataURLToFile and copyFile,   *)
(* with the attachments directory and the user's files as a map from path   *)
(* to bytes, and the wall clock that names the attachment files.  Around     *)
(* those: the start of the program (onReady), the event loop with its quit  *)
(* case, the reorder dialog, the channel uiDispatch and the dispatch loop   *)
(* of the src/a.md listing, and the store of the second program of          *)
(* src/main.go, whose save() takes the lock again.                          *)
(*                                                                          *)
(* A call is modelled in the steps at which other threads or a crash can    *)
(* observe it: (1) mu.Lock() plus the body up to and including              *)
(* json.MarshalIndent, (2) os.WriteFile opening the file with O_TRUNC,      *)
(* (3) os.WriteFile writing and closing, (4) the deferred mu.Unlock() and   *)
(* the return.                                                              *)
(***************************************************************************)
EXTENDS Integers, Sequences, FiniteSets, TLC

(* ----------------------------- bounds ---------------------------------- *)

\* longest queue the model lets enqueue build
MaxLen == 3

\* how many times the file system refuses or cuts short a write in one run
MaxFaults == 1

\* the wall clock reads 1 .. MaxClock
MaxClock == 2

\* how often the user presses the paste button in one run
MaxPastes == 2

\* how many closures the event loop hands to uiDispatch in one run
MaxOps == 2

(* ----------------------------- data model ------------------------------ *)

AttachmentNone == "none"
AttachmentImage == "image"
AttachmentAudio == "audio"

\* Task{}: the zero value returned by peek on an empty queue and by a failed complete
ZeroTask ==
    [id |-> "", text |-> "", created_at |-> 0,
     attachment_path |-> "", attachment_type |-> ""]

\* fmt.Sprintf("tsk_%d", time.Now().UnixNano()) for the wall-clock reading now
TaskId(now) == "tsk_" \o ToString(now)

\* the Task showAddTaskDialog builds when the wall clock reads now
NewTask(now, text, path, type) ==
    [id |-> TaskId(now), text |-> text, created_at |-> now,
     attachment_path |-> path, attachment_type |-> type]

\* three tasks, made at the wall-clock readings 1, 2 and 3
TaskA == NewTask(1, "write report", "", AttachmentNone)

TaskB == NewTask(2, "listen", "attachments/2_memo.mp3", AttachmentAudio)

TaskC == NewTask(3, "look", "attachments/3_shot.png", AttachmentImage)

\* the tasks the callers hand to enqueue
TaskPool == {TaskA, TaskB, TaskC}

\* a task read from a document that has neither attachment key
TaskBare == NewTask(4, "call back", "", "")

\* the tasks a queue.json can hold
FileTasks == TaskPool \cup {TaskBare}

\* the two threads of control that call the store
Threads == {"ev", "ui"}

\* indices handed to move: one below and one above every valid index
Idx == (0 - 1) .. MaxLen

RECURSIVE SeqsUpTo(_, _)
SeqsUpTo(S, n) ==
    IF n = 0 THEN {<< >>}
    ELSE LET shorter == SeqsUpTo(S, n - 1)
         IN  shorter \cup {Append(s, x) : s \in {q \in shorter : Len(q) = n - 1}, x \in S}

(* ----------------------------- queue.json ------------------------------ *)

\* a JSON key left out of the object (omitempty)
Omitted == "<omitted>"

\* json.Marshal of one Task: attachment_path and attachment_type are omitempty
MarshalTask(t) ==
    [id |-> t.id, text |-> t.text, created_at |-> t.created_at,
     attachment_path |-> IF t.attachment_path = "" THEN Omitted ELSE t.attachment_path,
     attachment_type |-> IF t.attachment_type = "" THEN Omitted ELSE t.attachment_type]

\* a variant of UnmarshalTask that reads a missing attachment_type as "none"
UnmarshalTaskDefaultsNone(j) ==
    [id |-> j.id, text |-> j.text, created_at |-> j.created_at,
     attachment_path |-> IF j.attachment_path = Omitted THEN "" ELSE j.attachment_path,
     attachment_type |-> IF j.attachment_type = Omitted THEN AttachmentNone
                         ELSE j.attachment_type]

\* json.Unmarshal of one object: a missing key leaves the field's zero value
UnmarshalTask(j) ==
    [id |-> j.id, text |-> j.text, created_at |-> j.created_at,
     attachment_path |-> IF j.attachment_path = Omitted THEN "" ELSE j.attachment_path,
     attachment_type |-> IF j.attachment_type = Omitted THEN "" ELSE j.attachment_type]

\* json.MarshalIndent(struct{Tasks}{q.Tasks}): the bytes saveLocked hands to os.WriteFile
Marshal(S) == [i \in 1 .. Len(S) |-> MarshalTask(S[i])]

Unmarshal(doc) == [i \in 1 .. Len(doc) |-> UnmarshalTask(doc[i])]

\* the states of the file at q.filePath
Absent == [kind |-> "absent", doc |-> << >>]
\* zero bytes: what O_TRUNC leaves before the first write
Empty == [kind |-> "empty", doc |-> << >>]
\* a strict prefix of a document: a write that stopped in the middle
Partial == [kind |-> "partial", doc |-> << >>]
Doc(bytes) == [kind |-> "doc", doc |-> bytes]

\* what loadLocked would put into q.Tasks for a file that parses
Loaded(d) == IF d.kind = "doc" THEN Unmarshal(d.doc) ELSE << >>

\* a variant of Loadable that reports a missing file as an error too
LoadableOnlyDoc(d) == d.kind = "doc"

\* loadLocked succeeds: no file (ErrNotExist) or a document json.Unmarshal accepts
Loadable(d) == d.kind \in {"absent", "doc"}

(* ----------------------------- slice operations ------------------------ *)

\* a variant of EnqueueSeq that puts the task at the head instead of the tail
EnqueueSeqAtHead(S, x) == << x >> \o S

\* q.Tasks = append(q.Tasks, t)
EnqueueSeq(S, x) == Append(S, x)

\* a variant of SkipSeq that forgets to re-append the head
SkipSeqDropsHead(S) == Tail(S)

\* first := q.Tasks[0]; q.Tasks = append(q.Tasks[1:], first)
SkipSeq(S) == Append(Tail(S), Head(S))

\* a variant of CompleteSeq that cuts the tail element instead of the head
CompleteSeqDropsLast(S) == SubSeq(S, 1, Len(S) - 1)

\* q.Tasks = q.Tasks[1:]
CompleteSeq(S) == Tail(S)

\* a variant of MoveSeq that treats to as an index of the slice before the removal
MoveSeqShifted(S, from, to) ==
    LET item == S[from + 1]
        removed == SubSeq(S, 1, from) \o SubSeq(S, from + 2, Len(S))
        at == IF from < to THEN to - 1 ELSE to
    IN  SubSeq(removed, 1, at) \o << item >> \o SubSeq(removed, at + 1, Len(removed))

\* a variant of MoveSeq that copies the element over the one at to
MoveSeqOverwrites(S, from, to) == [S EXCEPT ![to + 1] = S[from + 1]]

\* remove the element at from (0-based), then insert it at to in the shorter slice
MoveSeq(S, from, to) ==
    LET item == S[from + 1]
        removed == SubSeq(S, 1, from) \o SubSeq(S, from + 2, Len(S))
    IN  IF to >= Len(removed)
        THEN Append(removed, item)
        ELSE SubSeq(removed, 1, to) \o << item >> \o SubSeq(removed, to + 1, Len(removed))

(* ----------------------------- files and names ------------------------- *)

\* a variant of ToLower that leaves upper-case letters as they are
ToLowerKeepsCase(e) == e

\* strings.ToLower on an extension
ToLower(e) ==
    CASE e = ".PNG" -> ".png"
      [] e = ".Jpg" -> ".jpg"
      [] e = ".JPEG" -> ".jpeg"
      [] e = ".M4A" -> ".m4a"
      [] e = ".Mp3" -> ".mp3"
      [] OTHER -> e

\* every file name of the model with the extension filepath.Ext finds in it:
\* a stem without a dot, to which an extension is appended
Named ==
    {[base |-> st \o e, ext |-> e] :
        st \in {"shot", "memo", "notes", "clipboard"},
        e \in {".png", ".PNG", ".jpg", ".Jpg", ".jpeg", ".JPEG", ".m4a", ".M4A",
               ".mp3", ".Mp3", ".txt", ".gif", ".wav", ".bin", ""}}

\* the readings of time.Now().UnixNano()
Clock == 1 .. MaxClock

\* filepath.Join(attachmentsDir, fmt.Sprintf("%d_%s", now, base))
Dst(n, base) == "attachments/" \o ToString(n) \o "_" \o base

\* the user's home directory, os.UserHomeDir()
Home == "/home/u"

\* the paths under which a file name occurs: in the home directory, written
\* home-relative, and as a destination in the attachments directory
PathsOf(base) ==
    {Home \o "/" \o base, "~/" \o base} \cup {Dst(n, base) : n \in Clock}

\* filepath.Base(p)
Base(p) == (CHOOSE f \in Named : p \in PathsOf(f.base)).base

\* filepath.Ext(p)
Ext(p) == (CHOOSE f \in Named : p \in PathsOf(f.base)).ext

\* the files the user has: a screenshot, a voice memo and a text file
SrcShot == Home \o "/shot.PNG"

SrcMemo == Home \o "/memo.mp3"

SrcNotes == Home \o "/notes.txt"

SrcPaths == {SrcShot, SrcMemo, SrcNotes}

\* every path of the attachments directory the model can create: the base
\* names of the sources and the names tryClipboard and decodeDataURLToFile
\* synthesize
DstPaths ==
    {Dst(n, b) : n \in Clock,
                 b \in {Base(p) : p \in SrcPaths}
                       \cup {"clipboard.png", "clipboard.jpg", "clipboard.mp3",
                             "clipboard.m4a", "clipboard.bin"}}

\* the paths the model's file system knows; "~/memo.mp3" is the literal
\* relative path os.Open sees when it is handed an unexpanded home-relative name
FsPaths == SrcPaths \cup DstPaths \cup {"~/memo.mp3"}

\* no file at a path
NoFile == "<no file>"

\* a strict, non-empty prefix of the bytes c: a write that stopped in the middle
Cut(c) == "<part of " \o c \o ">"

\* an empty file system, for the specifications that do not use attachments
NoFiles == [p \in FsPaths |-> NoFile]

\* the home directory as the user left it, attachments directory empty
HomeFiles ==
    [p \in FsPaths |->
        CASE p = SrcShot -> "png1"
          [] p = SrcMemo -> "mp3a"
          [] p = SrcNotes -> "txt1"
          [] OTHER -> NoFile]

\* the locals of showAddTaskDialog (open, prefill, attachPath, aType, pastes)
\* and a record of its last ingestion: the source path and the bytes read from
\* it, the destination, the error, and what tryClipboard was given and returned
NoDlg ==
    [open |-> FALSE, prefill |-> "", attachPath |-> "", aType |-> AttachmentNone,
     pastes |-> 0,
     src |-> "", got |-> "", dst |-> "", err |-> "none",
     image |-> "", raw |-> "", p |-> "", at |-> AttachmentNone, txt |-> "",
     clipErr |-> "none", failed |-> FALSE,
     kind |-> "", last |-> "", S0 |-> << >>, d0 |-> Absent]

\* the program of the a.md listing right after onReady: the event-loop
\* goroutine waits in its select (ev), the main thread waits in
\* `for fn := range uiDispatch` (main), the unbuffered channel holds no sender
\* (fn = "" and id = 0 unless ev is in a send), the channel is open.  sent lists
\* the closures in the order their send statements began, trace the starts
\* and ends of the closures the dispatch loop has run.  start is how the
\* first lines of onReady ended, "" while that is not modelled.
NoDisp ==
    [ev |-> "select", fn |-> "", id |-> 0, main |-> "recv", running |-> 0,
     quit |-> FALSE, closed |-> FALSE, sent |-> << >>, trace |-> << >>,
     start |-> ""]

(* ----------------------------- state ----------------------------------- *)

VARIABLES
    run,      \* "running", "stopped" (crashed or killed), "fatal" (log.Fatal at start)
    Tasks,    \* q.Tasks
    disk,     \* the file queue.json
    mu,       \* q.mu: "free" or the thread that holds it
    pc,       \* per thread: "idle", "open", "write", "ret"
    cur,      \* per thread: the call in flight
    faults,   \* file-system failures so far
    scen,     \* the two-call scenario of SpecConc (unused by Spec)
    files,    \* the file system outside queue.json: path -> bytes or NoFile
    now,      \* the wall clock: what time.Now().UnixNano() returns
    dlg,      \* showAddTaskDialog: its locals and its last ingestion
    disp      \* the event loop, the channel uiDispatch and the dispatch loop of main

vars == << run, Tasks, disk, mu, pc, cur, faults, scen, files, now, dlg, disp >>

\* what the store's methods never touch
ingest == << files, now, dlg, disp >>

Free == "free"

ReadOps == {"peek", "getAll", "renderQueueList", "updateTooltip"}

\* no call in flight
NoCall ==
    [op |-> "none", arg |-> ZeroTask, from |-> 0, to |-> 0,
     pre |-> << >>, preDisk |-> Absent, buf |-> << >>,
     err |-> "nil", res |-> ZeroTask, ok |-> FALSE, wrote |-> FALSE]

NoScen ==
    [on |-> FALSE, S0 |-> << >>, d0 |-> Absent, t |-> ZeroTask, u |-> ZeroTask,
     todo |-> {}, step |-> 0]

(* ----------------------------- the lock -------------------------------- *)

\* a variant of CanLock for a store method that forgets q.mu.Lock()
CanLockAlways(t) == TRUE

\* q.mu.Lock() returns only when no thread holds the mutex
CanLock(t) == mu = Free

\* entering a store method: the process runs, the thread is not inside another call
CanCall(t) == run = "running" /\ pc[t] = "idle" /\ CanLock(t)

\* a call whose body returns without calling saveLocked (deferred Unlock still pending)
ReturnEarly(t, c) ==
    /\ mu' = t
    /\ pc' = [pc EXCEPT ![t] = "ret"]
    /\ cur' = [cur EXCEPT ![t] = c]

\* a variant of GoSave that unlocks before the file is written
GoSaveUnlocked(t, c) ==
    /\ mu' = Free
    /\ pc' = [pc EXCEPT ![t] = "open"]
    /\ cur' = [cur EXCEPT ![t] = [c EXCEPT !.buf = Marshal(Tasks'), !.wrote = TRUE]]

\* a call whose body reaches saveLocked: json.MarshalIndent of the new q.Tasks is
\* taken before os.WriteFile starts
GoSave(t, c) ==
    /\ mu' = t
    /\ pc' = [pc EXCEPT ![t] = "open"]
    /\ cur' = [cur EXCEPT ![t] = [c EXCEPT !.buf = Marshal(Tasks'), !.wrote = TRUE]]

Entry(name) == [NoCall EXCEPT !.op = name, !.pre = Tasks, !.preDisk = disk]

\* a scenario ticks off the thread that made its call and counts the call
Ticked(t) ==
    IF scen.on THEN [scen EXCEPT !.todo = @ \ {t}, !.step = @ + 1] ELSE scen

(* ----------------------------- store operations ------------------------ *)

\* taskQueue.enqueue up to the os.WriteFile call, as far as the store goes
enqueueCall(t, x) ==
    /\ CanCall(t)
    /\ Len(Tasks) < MaxLen
    /\ Tasks' = EnqueueSeq(Tasks, x)
    /\ GoSave(t, [Entry("enqueue") EXCEPT !.arg = x])
    /\ scen' = Ticked(t)
    /\ UNCHANGED << run, disk, faults >>

\* taskQueue.enqueue called with a task that is already built
enqueue(t, x) == enqueueCall(t, x) /\ UNCHANGED ingest

\* a variant of skip that also treats a two-element queue as nothing to do
skipOffByOne(t) ==
    /\ CanCall(t)
    /\ IF Len(Tasks) <= 2
       THEN /\ ReturnEarly(t, Entry("skip"))
            /\ UNCHANGED Tasks
       ELSE /\ Tasks' = SkipSeq(Tasks)
            /\ GoSave(t, Entry("skip"))
    /\ scen' = Ticked(t)
    /\ UNCHANGED << run, disk, faults, ingest >>

\* taskQueue.skip up to the os.WriteFile call
skip(t) ==
    /\ CanCall(t)
    /\ IF Len(Tasks) <= 1
       THEN /\ ReturnEarly(t, Entry("skip"))
            /\ UNCHANGED Tasks
       ELSE /\ Tasks' = SkipSeq(Tasks)
            /\ GoSave(t, Entry("skip"))
    /\ scen' = Ticked(t)
    /\ UNCHANGED << run, disk, faults, ingest >>

\* a variant of complete that saves before it looks at the length
completeSavesFirst(t) ==
    /\ CanCall(t)
    /\ IF Len(Tasks) = 0
       THEN /\ Tasks' = Tasks
            /\ GoSave(t, [Entry("complete") EXCEPT !.err = "empty"])
       ELSE /\ Tasks' = CompleteSeq(Tasks)
            /\ GoSave(t, [Entry("complete") EXCEPT !.res = Head(Tasks)])
    /\ scen' = Ticked(t)
    /\ UNCHANGED << run, disk, faults, ingest >>

\* a variant of complete that removes the attachment file of the task it takes out
completeRemovesAttachment(t) ==
    /\ CanCall(t)
    /\ IF Len(Tasks) = 0
       THEN /\ ReturnEarly(t, [Entry("complete") EXCEPT !.err = "empty"])
            /\ UNCHANGED << Tasks, files >>
       ELSE /\ Tasks' = CompleteSeq(Tasks)
            /\ GoSave(t, [Entry("complete") EXCEPT !.res = Head(Tasks)])
            /\ files' = [p \in FsPaths |->
                            IF p = Head(Tasks).attachment_path THEN NoFile ELSE files[p]]
    /\ scen' = Ticked(t)
    /\ UNCHANGED << run, disk, faults, now, dlg, disp >>

\* taskQueue.complete up to the os.WriteFile call
complete(t) ==
    /\ CanCall(t)
    /\ IF Len(Tasks) = 0
       THEN /\ ReturnEarly(t, [Entry("complete") EXCEPT !.err = "empty"])
            /\ UNCHANGED Tasks
       ELSE /\ Tasks' = CompleteSeq(Tasks)
            /\ GoSave(t, [Entry("complete") EXCEPT !.res = Head(Tasks)])
    /\ scen' = Ticked(t)
    /\ UNCHANGED << run, disk, faults, ingest >>

\* a variant of move whose range check lets to = n through
moveOffByOne(t, from, to) ==
    /\ CanCall(t)
    /\ LET n == Len(Tasks)
           c == [Entry("move") EXCEPT !.from = from, !.to = to]
       IN  IF n = 0
           THEN /\ ReturnEarly(t, [c EXCEPT !.err = "empty"])
                /\ UNCHANGED Tasks
           ELSE IF from < 0 \/ from >= n \/ to < 0 \/ to > n
           THEN /\ ReturnEarly(t, [c EXCEPT !.err = "range"])
                /\ UNCHANGED Tasks
           ELSE IF from = to
           THEN /\ ReturnEarly(t, c)
                /\ UNCHANGED Tasks
           ELSE /\ Tasks' = MoveSeq(Tasks, from, to)
                /\ GoSave(t, c)
    /\ scen' = Ticked(t)
    /\ UNCHANGED << run, disk, faults, ingest >>

\* taskQueue.move up to the os.WriteFile call
move(t, from, to) ==
    /\ CanCall(t)
    /\ LET n == Len(Tasks)
           c == [Entry("move") EXCEPT !.from = from, !.to = to]
       IN  IF n = 0
           THEN /\ ReturnEarly(t, [c EXCEPT !.err = "empty"])
                /\ UNCHANGED Tasks
           ELSE IF from < 0 \/ from >= n \/ to < 0 \/ to >= n
           THEN /\ ReturnEarly(t, [c EXCEPT !.err = "range"])
                /\ UNCHANGED Tasks
           ELSE IF from = to
           THEN /\ ReturnEarly(t, c)
                /\ UNCHANGED Tasks
           ELSE /\ Tasks' = MoveSeq(Tasks, from, to)
                /\ GoSave(t, c)
    /\ scen' = Ticked(t)
    /\ UNCHANGED << run, disk, faults, ingest >>

\* a variant of peek that takes the head off the queue
peekPops(t) ==
    /\ CanCall(t)
    /\ ReturnEarly(t, IF Len(Tasks) = 0
                      THEN Entry("peek")
                      ELSE [Entry("peek") EXCEPT !.res = Head(Tasks), !.ok = TRUE])
    /\ Tasks' = IF Len(Tasks) = 0 THEN Tasks ELSE Tail(Tasks)
    /\ scen' = Ticked(t)
    /\ UNCHANGED << run, disk, faults, ingest >>

\* taskQueue.peek: the head and true, or Task{} and false
peek(t) ==
    /\ CanCall(t)
    /\ ReturnEarly(t, IF Len(Tasks) = 0
                      THEN Entry("peek")
                      ELSE [Entry("peek") EXCEPT !.res = Head(Tasks), !.ok = TRUE])
    /\ scen' = Ticked(t)
    /\ UNCHANGED << run, Tasks, disk, faults, ingest >>

\* getAll, renderQueueList and onReady's updateTooltip: read q.Tasks under the lock
\* (the sequence read is kept in pre)
readAll(t, name) ==
    /\ CanCall(t)
    /\ ReturnEarly(t, Entry(name))
    /\ scen' = Ticked(t)
    /\ UNCHANGED << run, Tasks, disk, faults, ingest >>

(* ----------------------------- saveLocked ------------------------------ *)

\* os.WriteFile, first half: OpenFile(name, O_WRONLY|O_CREATE|O_TRUNC, perm).
\* On success the live file holds zero bytes; on failure it is untouched and
\* saveLocked returns the error.
SaveOpen(t) ==
    /\ run = "running" /\ pc[t] = "open"
    /\ \/ /\ disk' = Empty
          /\ pc' = [pc EXCEPT ![t] = "write"]
          /\ UNCHANGED << cur, faults >>
       \/ /\ faults < MaxFaults
          /\ faults' = faults + 1
          /\ disk' = disk
          /\ pc' = [pc EXCEPT ![t] = "ret"]
          /\ cur' = [cur EXCEPT ![t] = [@ EXCEPT !.err = "io", !.res = ZeroTask]]
    /\ UNCHANGED << run, Tasks, mu, scen, ingest >>

\* os.WriteFile, second half: f.Write(data) then f.Close().  The write can stop
\* in the middle (a prefix or nothing is left), and Close can report an error
\* after all bytes were written.
SaveWrite(t) ==
    /\ run = "running" /\ pc[t] = "write"
    /\ \/ /\ disk' = Doc(cur[t].buf)
          /\ UNCHANGED << cur, faults >>
       \/ /\ faults < MaxFaults
          /\ faults' = faults + 1
          /\ disk' \in {Empty, Partial, Doc(cur[t].buf)}
          /\ cur' = [cur EXCEPT ![t] = [@ EXCEPT !.err = "io", !.res = ZeroTask]]
    /\ pc' = [pc EXCEPT ![t] = "ret"]
    /\ UNCHANGED << run, Tasks, mu, scen, ingest >>

\* the deferred q.mu.Unlock() and the return, as far as the store goes
ReturnCall(t) ==
    /\ run = "running" /\ pc[t] = "ret"
    /\ mu' = Free
    /\ pc' = [pc EXCEPT ![t] = "idle"]
    /\ cur' = [cur EXCEPT ![t] = NoCall]
    /\ UNCHANGED << run, Tasks, disk, faults, scen >>

\* the deferred q.mu.Unlock() and the return to a caller that is not modelled
Return(t) == ReturnCall(t) /\ UNCHANGED ingest

(* ----------------------------- process life ---------------------------- *)

\* the process dies (power loss, kill): memory and an open dialog are gone,
\* the files stay as they are
Crash ==
    /\ run = "running"
    /\ run' = "stopped"
    /\ Tasks' = << >>
    /\ mu' = Free
    /\ pc' = [t \in Threads |-> "idle"]
    /\ cur' = [t \in Threads |-> NoCall]
    /\ dlg' = [NoDlg EXCEPT !.pastes = dlg.pastes]
    /\ disp' = NoDisp
    /\ UNCHANGED << disk, faults, scen, files, now >>

\* onReady: newTaskQueue -> loadLocked; an error is log.Fatal
Start ==
    /\ run = "stopped"
    /\ IF Loadable(disk)
       THEN /\ run' = "running"
            /\ Tasks' = Loaded(disk)
       ELSE /\ run' = "fatal"
            /\ UNCHANGED Tasks
    /\ UNCHANGED << disk, mu, pc, cur, faults, scen, ingest >>

\* newTaskQueue of the a.md listing: `_ = q.load()` drops the error and the
\* store starts with q.Tasks = nil
StartLenient ==
    /\ run = "stopped"
    /\ run' = "running"
    /\ Tasks' = IF Loadable(disk) THEN Loaded(disk) ELSE << >>
    /\ UNCHANGED << disk, mu, pc, cur, faults, scen, ingest >>

\* saveLocked succeeds and the process exits
SaveAndExit ==
    /\ run = "running"
    /\ \A t \in Threads : pc[t] = "idle"
    /\ disk' = Doc(Marshal(Tasks))
    /\ run' = "stopped"
    /\ Tasks' = << >>
    /\ UNCHANGED << mu, pc, cur, faults, scen, ingest >>

(* ----------------------------- specification --------------------------- *)

\* the state after newTaskQueue on a fresh data directory
Init ==
    /\ run = "running"
    /\ Tasks = << >>
    /\ disk = Absent
    /\ mu = Free
    /\ pc = [t \in Threads |-> "idle"]
    /\ cur = [t \in Threads |-> NoCall]
    /\ faults = 0
    /\ files = NoFiles /\ now = 1 /\ dlg = NoDlg /\ disp = NoDisp
    /\ scen = NoScen

Next ==
    \/ \E t \in Threads, x \in TaskPool : enqueue(t, x)
    \/ \E t \in Threads : skip(t)
    \/ \E t \in Threads : complete(t)
    \/ \E t \in Threads, from \in Idx, to \in Idx : move(t, from, to)
    \/ \E t \in Threads : peek(t)
    \/ \E t \in Threads, name \in ReadOps \ {"peek"} : readAll(t, name)
    \/ \E t \in Threads : SaveOpen(t)
    \/ \E t \in Threads : SaveWrite(t)
    \/ \E t \in Threads : Return(t)
    \/ Crash
    \/ Start

Spec == Init /\ [][Next]_vars

TypeOK ==
    /\ run \in {"running", "stopped", "fatal"}
    /\ Len(Tasks) <= MaxLen
    /\ disk.kind \in {"absent", "empty", "partial", "doc"}
    /\ mu \in Threads \cup {Free}
    /\ \A t \in Threads : pc[t] \in {"idle", "open", "write", "ret"}
    /\ faults \in 0 .. MaxFaults

(* ----------------------------- two concurrent calls -------------------- *)

\* what saveLocked can leave behind and report when it writes sequence S over file d
SaveOutcomes(S, d) ==
    {[disk |-> d, err |-> "io"]}
    \cup {[disk |-> x, err |-> "io"] : x \in {Empty, Partial, Doc(Marshal(S))}}
    \cup {[disk |-> Doc(Marshal(S)), err |-> "nil"]}

\* one whole enqueue call run alone on memory S and file d
EnqueueCall(S, d, x) ==
    {[mem |-> EnqueueSeq(S, x), disk |-> o.disk] : o \in SaveOutcomes(EnqueueSeq(S, x), d)}

\* one whole complete call run alone on memory S and file d
CompleteCall(S, d) ==
    IF Len(S) = 0
    THEN {[mem |-> S, disk |-> d]}
    ELSE {[mem |-> CompleteSeq(S), disk |-> o.disk] : o \in SaveOutcomes(CompleteSeq(S), d)}

\* enqueue(x) returns before complete() starts
EnqueueThenComplete(S, d, x) ==
    UNION {CompleteCall(r.mem, r.disk) : r \in EnqueueCall(S, d, x)}

\* complete() returns before enqueue(x) starts
CompleteThenEnqueue(S, d, x) ==
    UNION {EnqueueCall(r.mem, r.disk, x) : r \in CompleteCall(S, d)}

\* a store holding S with its file in step; the UI thread is about to call
\* enqueue(x), the event-loop goroutine complete()
InitConc ==
    /\ run = "running"
    /\ Tasks \in SeqsUpTo(TaskPool, MaxLen - 1)
    /\ disk \in {Doc(Marshal(Tasks))} \cup (IF Tasks = << >> THEN {Absent} ELSE {})
    /\ mu = Free
    /\ pc = [t \in Threads |-> "idle"]
    /\ cur = [t \in Threads |-> NoCall]
    /\ faults = 0
    /\ files = NoFiles /\ now = 1 /\ dlg = NoDlg /\ disp = NoDisp
    /\ \E x \in TaskPool :
          scen = [NoScen EXCEPT !.on = TRUE, !.S0 = Tasks, !.d0 = disk,
                                !.t = x, !.todo = Threads]

NextConc ==
    \/ "ui" \in scen.todo /\ enqueue("ui", scen.t)
    \/ "ev" \in scen.todo /\ complete("ev")
    \/ \E t \in Threads : SaveOpen(t)
    \/ \E t \in Threads : SaveWrite(t)
    \/ \E t \in Threads : Return(t)

SpecConc == InitConc /\ [][NextConc]_vars

\* both calls of the scenario have returned
ConcDone == scen.on /\ scen.todo = {} /\ \A t \in Threads : pc[t] = "idle"

(* ----------------------------- properties ------------------------------ *)

\* thread t has finished the body of a call and is about to unlock and return
AtReturn(t) == pc[t] = "ret"

\* the file holds exactly the sequence S
Persisted(S) == disk.kind = "doc" /\ Loaded(disk) = S

\* C1: after every mutating call that returns success (no-ops included, earlier
\* failed saves included) the sequence in memory equals the sequence in queue.json
C1_MemoryEqualsDiskOnSuccess ==
    \A t \in Threads :
        (AtReturn(t) /\ cur[t].op \in {"enqueue", "skip", "complete", "move"} /\ cur[t].err = "nil")
            => (Loadable(disk) /\ Loaded(disk) = Tasks)

\* C2: when the save inside enqueue fails, enqueue returns the error and the
\* in-memory sequence is what it was before the call
C2_EnqueueRollsBack ==
    \A t \in Threads :
        (AtReturn(t) /\ cur[t].op = "enqueue" /\ cur[t].wrote /\ cur[t].err # "nil")
            => (cur[t].err = "io" /\ Tasks = cur[t].pre)

\* C3: when the save inside skip, complete or move fails, the call reports an
\* error and the in-memory sequence is rolled back to its value before the call
C3_MutationRollsBack ==
    \A t \in Threads :
        (AtReturn(t) /\ cur[t].op \in {"skip", "complete", "move"}
                     /\ cur[t].wrote /\ cur[t].err # "nil")
            => (cur[t].err = "io" /\ Tasks = cur[t].pre)

\* C4: at every point during a save the file holds either the complete
\* previously saved document or the complete new one, never an empty or
\* partial one
C4_SaveIsAtomic ==
    /\ disk.kind \in {"absent", "doc"}
    /\ \A t \in Threads :
          (pc[t] \in {"open", "write", "ret"} /\ cur[t].wrote)
              => disk \in {cur[t].preDisk, Doc(cur[t].buf)}

\* C5: when enqueue(x) and complete() are called concurrently by two threads,
\* the final memory and file are those of one of the two sequential orders, and
\* with no file-system failure the file holds the final in-memory sequence
C5_ConcurrentCallsSerialize ==
    ConcDone =>
        /\ [mem |-> Tasks, disk |-> disk] \in
              EnqueueThenComplete(scen.S0, scen.d0, scen.t)
              \cup CompleteThenEnqueue(scen.S0, scen.d0, scen.t)
        /\ faults = 0 =>
              /\ Persisted(Tasks)
              /\ Tasks \in {Tail(Append(scen.S0, scen.t)),
                            IF scen.S0 = << >> THEN << scen.t >>
                            ELSE Append(Tail(scen.S0), scen.t)}

\* both calls ran without failure on an empty store and complete() went first:
\* the enqueued task is the only one left
C5_Witness ==
    /\ ConcDone /\ faults = 0
    /\ scen.S0 = << >> /\ Tasks = << scen.t >>

\* C6: a thread inside a store method holds the mutex, no other thread is
\* inside one at the same time, and what a reader read is the current sequence,
\* with no save of another thread pending
C6_CallsAreSerialized ==
    \A t \in Threads :
        pc[t] # "idle" =>
            /\ mu = t
            /\ \A u \in Threads \ {t} : pc[u] = "idle"
            /\ cur[t].op \in ReadOps => Tasks = cur[t].pre

\* a reader holds the lock on a two-element queue while the other thread is idle
C6_Witness ==
    \E t \in Threads :
        /\ AtReturn(t) /\ cur[t].op = "renderQueueList" /\ Len(cur[t].pre) = 2
        /\ mu = t

\* C7: skip on length <= 1 changes nothing and writes nothing; on S of length
\* >= 2 with a successful save the sequence is S[1:] followed by S[0], persisted
C7_Skip ==
    \A t \in Threads :
        (AtReturn(t) /\ cur[t].op = "skip") =>
            LET S == cur[t].pre
            IN  /\ Len(S) <= 1 =>
                      /\ Tasks = S /\ ~cur[t].wrote
                      /\ disk = cur[t].preDisk /\ cur[t].err = "nil"
                /\ (Len(S) >= 2 /\ cur[t].err = "nil") =>
                      /\ Tasks = SubSeq(S, 2, Len(S)) \o << S[1] >>
                      /\ Persisted(Tasks)

\* a skip of three different tasks has succeeded
C7_Witness ==
    \E t \in Threads :
        /\ AtReturn(t) /\ cur[t].op = "skip" /\ cur[t].err = "nil"
        /\ cur[t].pre = << TaskA, TaskB, TaskC >>

\* C8: complete on an empty store returns the empty-queue error, leaves memory
\* empty and attempts no write: the file is what it was before the call
C8_CompleteOnEmpty ==
    \A t \in Threads :
        (AtReturn(t) /\ cur[t].op = "complete" /\ cur[t].pre = << >>) =>
            /\ cur[t].err = "empty" /\ cur[t].res = ZeroTask
            /\ Tasks = << >>
            /\ ~cur[t].wrote /\ disk = cur[t].preDisk

\* complete has failed on an empty store whose file exists
C8_Witness ==
    \E t \in Threads :
        /\ AtReturn(t) /\ cur[t].op = "complete" /\ cur[t].err = "empty"
        /\ disk.kind = "doc"

\* C9: complete on a non-empty S with a successful save returns S[0]; memory
\* and file then hold S[1:] in unchanged order
C9_Complete ==
    \A t \in Threads :
        (AtReturn(t) /\ cur[t].op = "complete" /\ cur[t].pre # << >>
                     /\ cur[t].err = "nil") =>
            LET S == cur[t].pre
            IN  /\ cur[t].res = S[1]
                /\ Len(Tasks) = Len(S) - 1
                /\ \A i \in 1 .. Len(Tasks) : Tasks[i] = S[i + 1]
                /\ Persisted(Tasks)

\* complete has returned the head of a three-element queue
C9_Witness ==
    \E t \in Threads :
        /\ AtReturn(t) /\ cur[t].op = "complete" /\ cur[t].err = "nil"
        /\ cur[t].pre = << TaskB, TaskA, TaskC >> /\ cur[t].res = TaskB

\* C10: enqueue(task) on S with a successful save gives S followed by task,
\* every earlier task at its old index, and that sequence is persisted
C10_Enqueue ==
    \A t \in Threads :
        (AtReturn(t) /\ cur[t].op = "enqueue" /\ cur[t].err = "nil") =>
            LET S == cur[t].pre
            IN  /\ Len(Tasks) = Len(S) + 1
                /\ Tasks[Len(Tasks)] = cur[t].arg
                /\ \A i \in 1 .. Len(S) : Tasks[i] = S[i]
                /\ Persisted(Tasks)

\* an enqueue onto a two-element queue has succeeded
C10_Witness ==
    \E t \in Threads :
        /\ AtReturn(t) /\ cur[t].op = "enqueue" /\ cur[t].err = "nil"
        /\ cur[t].pre = << TaskA, TaskB >> /\ cur[t].arg = TaskC

\* i is a valid 0-based index of a sequence of length n
InRange(i, n) == 0 <= i /\ i < n

\* the sequence S without its element at 0-based index i
Without(S, i) == SubSeq(S, 1, i) \o SubSeq(S, i + 2, Len(S))

\* C11: for valid indices, move(from, to) with from = to changes nothing and
\* writes nothing; with from # to and a successful save the task that was at
\* from is at to, the other tasks keep their relative order, the length is
\* unchanged and the result is persisted
C11_Move ==
    \A t \in Threads :
        (AtReturn(t) /\ cur[t].op = "move"
                     /\ InRange(cur[t].from, Len(cur[t].pre))
                     /\ InRange(cur[t].to, Len(cur[t].pre))) =>
            LET S == cur[t].pre
                from == cur[t].from
                to == cur[t].to
            IN  /\ from = to =>
                      /\ Tasks = S /\ cur[t].err = "nil"
                      /\ ~cur[t].wrote /\ disk = cur[t].preDisk
                /\ (from # to /\ cur[t].err = "nil") =>
                      /\ Len(Tasks) = Len(S)
                      /\ Tasks[to + 1] = S[from + 1]
                      /\ Without(Tasks, to) = Without(S, from)
                      /\ Persisted(Tasks)
                /\ (S = << TaskA, TaskB, TaskC >> /\ from = 2 /\ to = 0
                        /\ cur[t].err = "nil") => Tasks = << TaskC, TaskA, TaskB >>

\* move(0, 2) on [A, B, C] has succeeded
C11_Witness ==
    \E t \in Threads :
        /\ AtReturn(t) /\ cur[t].op = "move" /\ cur[t].err = "nil"
        /\ cur[t].pre = << TaskA, TaskB, TaskC >>
        /\ cur[t].from = 0 /\ cur[t].to = 2
        /\ Tasks = << TaskB, TaskC, TaskA >>

\* C12: move(from, to) with from or to outside [0, n) returns an error, leaves
\* the in-memory sequence unchanged and attempts no write
C12_MoveOutOfRange ==
    \A t \in Threads :
        (AtReturn(t) /\ cur[t].op = "move"
                     /\ ~(InRange(cur[t].from, Len(cur[t].pre))
                          /\ InRange(cur[t].to, Len(cur[t].pre)))) =>
            /\ cur[t].err # "nil"
            /\ Tasks = cur[t].pre
            /\ ~cur[t].wrote /\ disk = cur[t].preDisk

\* move(0, 3) on a three-element queue whose file exists has been refused
C12_Witness ==
    \E t \in Threads :
        /\ AtReturn(t) /\ cur[t].op = "move" /\ cur[t].err = "range"
        /\ Len(cur[t].pre) = 3 /\ cur[t].from = 0 /\ cur[t].to = 3
        /\ disk.kind = "doc"

\* C13: move on an empty sequence fails with the same index-out-of-range error
\* that out-of-range indices get on a non-empty sequence, for any indices
C13_MoveOnEmptyIsRangeError ==
    \A t \in Threads :
        (AtReturn(t) /\ cur[t].op = "move" /\ cur[t].pre = << >>)
            => cur[t].err = "range"

\* C14: peek returns the head and true on a non-empty sequence, Task{} and
\* false on an empty one; it never fails, changes nothing and writes nothing
C14_Peek ==
    \A t \in Threads :
        (AtReturn(t) /\ cur[t].op = "peek") =>
            /\ cur[t].err = "nil"
            /\ IF cur[t].pre = << >>
               THEN cur[t].res = ZeroTask /\ ~cur[t].ok
               ELSE cur[t].res = cur[t].pre[1] /\ cur[t].ok
            /\ Tasks = cur[t].pre
            /\ ~cur[t].wrote /\ disk = cur[t].preDisk

\* peek has returned the head of a two-element queue
C14_Witness ==
    \E t \in Threads :
        /\ AtReturn(t) /\ cur[t].op = "peek" /\ cur[t].ok
        /\ cur[t].pre = << TaskB, TaskA >> /\ cur[t].res = TaskB

(* ----------------------------- save and load -------------------------- *)

\* a store holding any sequence S; it is saved, the process ends, and the next
\* start loads the file
InitRoundTrip ==
    /\ run = "running"
    /\ Tasks \in SeqsUpTo(FileTasks, MaxLen)
    /\ disk = Absent
    /\ mu = Free
    /\ pc = [t \in Threads |-> "idle"]
    /\ cur = [t \in Threads |-> NoCall]
    /\ faults = 0
    /\ files = NoFiles /\ now = 1 /\ dlg = NoDlg /\ disp = NoDisp
    /\ scen = [NoScen EXCEPT !.on = TRUE, !.S0 = Tasks]

NextRoundTrip ==
    \/ disk = Absent /\ SaveAndExit
    \/ Start

SpecRoundTrip == InitRoundTrip /\ [][NextRoundTrip]_vars

NextLenientLoad ==
    \/ \E t \in Threads, x \in TaskPool : enqueue(t, x)
    \/ \E t \in Threads : skip(t)
    \/ \E t \in Threads : complete(t)
    \/ \E t \in Threads : peek(t)
    \/ \E t \in Threads : readAll(t, "updateTooltip")
    \/ \E t \in Threads : SaveOpen(t)
    \/ \E t \in Threads : SaveWrite(t)
    \/ \E t \in Threads : Return(t)
    \/ Crash
    \/ StartLenient

SpecLenientLoad == Init /\ [][NextLenientLoad]_vars

\* C16: when queue.json exists but cannot be parsed, constructing the store
\* fails: the store does not start (so never with an empty queue) and the file
\* is left as it is
C16_UnreadableFileStopsStart ==
    [][(run = "stopped" /\ ~Loadable(disk)) => (run' # "running" /\ disk' = disk)]_vars

\* C17: when no file exists at the queue path, loading succeeds and yields the
\* empty sequence, and the load creates no file
C17_MissingFileLoadsEmpty ==
    [][(run = "stopped" /\ disk = Absent /\ run' # run)
          => (run' = "running" /\ Tasks' = << >> /\ disk' = Absent)]_vars

\* the store runs empty with no file after a restart: the one write so far
\* failed at open, and the task it left in memory has gone with the old process
C17_Witness ==
    /\ run = "running" /\ disk = Absent /\ Tasks = << >>
    /\ faults = 1 /\ \A t \in Threads : pc[t] = "idle"

(* ----------------------------- end to end ------------------------------ *)

\* an empty store, and the calls enqueue(a), peek(), enqueue(b), skip(),
\* complete() made one after the other, each by either thread
InitEndToEnd ==
    /\ run = "running"
    /\ Tasks = << >>
    /\ disk \in {Absent, Doc(Marshal(<< >>))}
    /\ mu = Free
    /\ pc = [t \in Threads |-> "idle"]
    /\ cur = [t \in Threads |-> NoCall]
    /\ faults = 0
    /\ files = NoFiles /\ now = 1 /\ dlg = NoDlg /\ disp = NoDisp
    /\ \E a \in TaskPool, b \in TaskPool :
          scen = [NoScen EXCEPT !.on = TRUE, !.d0 = disk, !.t = a, !.u = b]

NextEndToEnd ==
    \/ \E t \in Threads : scen.step = 0 /\ enqueue(t, scen.t)
    \/ \E t \in Threads : scen.step = 1 /\ peek(t)
    \/ \E t \in Threads : scen.step = 2 /\ enqueue(t, scen.u)
    \/ \E t \in Threads : scen.step = 3 /\ skip(t)
    \/ \E t \in Threads : scen.step = 4 /\ complete(t)
    \/ \E t \in Threads : SaveOpen(t)
    \/ \E t \in Threads : SaveWrite(t)
    \/ \E t \in Threads : Return(t)

SpecEndToEnd == InitEndToEnd /\ [][NextEndToEnd]_vars

\* C18: with all saves succeeding, from an empty store: after enqueue(A) peek
\* returns A; after enqueue(B) the store is [A, B]; after skip it is [B, A];
\* complete then returns B and the store is [A]
C18_EndToEnd ==
    (scen.on /\ faults = 0) =>
        \A t \in Threads :
            AtReturn(t) =>
                /\ scen.step = 1 => (Tasks = << scen.t >> /\ Persisted(Tasks))
                /\ scen.step = 2 => (cur[t].ok /\ cur[t].res = scen.t)
                /\ scen.step = 3 => (Tasks = << scen.t, scen.u >> /\ Persisted(Tasks))
                /\ scen.step = 4 => (Tasks = << scen.u, scen.t >> /\ Persisted(Tasks))
                /\ scen.step = 5 =>
                      /\ cur[t].err = "nil" /\ cur[t].res = scen.u
                      /\ Tasks = << scen.t >> /\ Persisted(Tasks)

\* the last call of the scenario with A = TaskA and B = TaskB has returned TaskB
C18_Witness ==
    \E t \in Threads :
        /\ scen.on /\ faults = 0 /\ scen.step = 5
        /\ AtReturn(t) /\ cur[t].op = "complete"
        /\ scen.t = TaskA /\ scen.u = TaskB
        /\ cur[t].res = TaskB /\ Tasks = << TaskA >>

(* ----------------------------- task lifecycle -------------------------- *)

\* how many times task x occurs in sequence S
Count(S, x) == Cardinality({i \in 1 .. Len(S) : S[i] = x})

\* C19: a task enters the sequence only through enqueue and leaves it only
\* through a complete() made while it is at index 0; skip, move and the reads
\* keep the same tasks the same number of times
C19_Lifecycle ==
    \A t \in Threads :
        AtReturn(t) =>
            LET S == cur[t].pre
                entered(x) == IF cur[t].op = "enqueue" /\ x = cur[t].arg THEN 1 ELSE 0
                left(x) == IF cur[t].op = "complete" /\ S # << >> /\ x = S[1]
                           THEN 1 ELSE 0
            IN  /\ \A x \in FileTasks :
                      Count(Tasks, x) = Count(S, x) + entered(x) - left(x)
                /\ \A i \in 1 .. Len(Tasks) : Tasks[i] \in FileTasks
                /\ cur[t].op = "complete" /\ S # << >> => Tasks = Tail(S)

\* a move of three different tasks has been made
C19_Witness ==
    \E t \in Threads :
        /\ AtReturn(t) /\ cur[t].op = "move" /\ cur[t].wrote
        /\ cur[t].pre = << TaskC, TaskA, TaskB >>
        /\ cur[t].from = 1 /\ cur[t].to = 2

\* C20: no two tasks in the store share an id, whatever add-task, skip,
\* complete and move operations were made
C20_IdsUnique ==
    \A i \in 1 .. Len(Tasks), j \in 1 .. Len(Tasks) :
        i # j => Tasks[i].id # Tasks[j].id

(* ----------------------------- attachments ----------------------------- *)

\* what the user can type into zenity.Entry
EntryTexts == {"", "  ", "call Bob", " call Bob "}

\* strings.TrimSpace on the texts of the model
TrimSpace(x) ==
    CASE x = "  " -> ""
      [] x = " call Bob " -> "call Bob"
      [] x = " buy milk " -> "buy milk"
      [] x = " /home/u/memo.mp3 " -> "/home/u/memo.mp3"
      [] OTHER -> x

\* the extension test of the file-picker dialog
ClassifyPicked(fp) ==
    LET ext == ToLower(Ext(fp))
    IN  IF ext = ".png" \/ ext = ".jpg" \/ ext = ".jpeg" THEN AttachmentImage
        ELSE IF ext = ".m4a" \/ ext = ".mp3" THEN AttachmentAudio
        ELSE AttachmentNone

\* the extension switch of tryClipboard, applied to the destination path
ClassifyPasted(dst) ==
    LET ext == ToLower(Ext(dst))
    IN  CASE ext \in {".png", ".jpg", ".jpeg"} -> AttachmentImage
          [] ext \in {".m4a", ".mp3"} -> AttachmentAudio
          [] OTHER -> AttachmentNone

\* a variant of CopyOutcomes whose successful copy stops short of the last bytes
CopyOutcomesShort(F, src, dst) ==
    IF F[src] = NoFile
    THEN {[files |-> F, got |-> "", err |-> "open", fault |-> FALSE]}
    ELSE {[files |-> [F EXCEPT ![dst] = Cut(F[src])], got |-> F[src], err |-> "nil",
           fault |-> FALSE]}
         \cup {[files |-> F, got |-> "", err |-> "io", fault |-> TRUE]}
         \cup {[files |-> [F EXCEPT ![dst] = c], got |-> F[src], err |-> "io",
                fault |-> TRUE] : c \in {"", Cut(F[src])}}

\* copyFile(src, dst) on the file system F: os.Open fails when src is missing;
\* os.Open or os.Create can fail and leave F alone; os.Create truncates dst, and
\* io.Copy either writes all the bytes of src or stops with an error
CopyOutcomes(F, src, dst) ==
    IF F[src] = NoFile
    THEN {[files |-> F, got |-> "", err |-> "open", fault |-> FALSE]}
    ELSE {[files |-> [F EXCEPT ![dst] = F[src]], got |-> F[src], err |-> "nil",
           fault |-> FALSE]}
         \cup {[files |-> F, got |-> "", err |-> "io", fault |-> TRUE]}
         \cup {[files |-> [F EXCEPT ![dst] = c], got |-> F[src], err |-> "io",
                fault |-> TRUE] : c \in {"", Cut(F[src])}}

\* showAddTaskDialog of src/main.go (text entry, optional file picker, copy,
\* enqueue).  fp = "" is the answer No to zenity.Question, or a cancelled
\* picker or a picker error after the answer Yes.
showAddTaskDialogPicker(entered, fp) ==
    /\ run = "running"
    /\ pc["ev"] = "idle"
    /\ LET text == TrimSpace(entered)
           aType == IF fp = "" THEN AttachmentNone ELSE ClassifyPicked(fp)
           dst == Dst(now, Base(fp))
       IN  IF text = ""
           THEN /\ dlg' = [NoDlg EXCEPT !.kind = "add", !.last = "empty text"]
                /\ UNCHANGED << run, Tasks, disk, mu, pc, cur, faults, scen, files >>
           ELSE IF fp = ""
           THEN /\ enqueueCall("ev", NewTask(now, text, "", aType))
                /\ dlg' = NoDlg
                /\ UNCHANGED files
           ELSE \E o \in CopyOutcomes(files, fp, dst) :
                   /\ o.fault => faults < MaxFaults
                   /\ files' = o.files
                   /\ dlg' = [NoDlg EXCEPT !.src = fp, !.got = o.got, !.dst = dst,
                                           !.err = o.err]
                   /\ IF o.err = "nil"
                      THEN enqueueCall("ev", NewTask(now, text, dst, aType))
                      ELSE /\ faults' = IF o.fault THEN faults + 1 ELSE faults
                           /\ UNCHANGED << run, Tasks, disk, mu, pc, cur, scen >>
    /\ UNCHANGED << now, disp >>

(* ----------------------------- the world outside ----------------------- *)

\* the wall clock moves on between two readings; when it does not (a coarse
\* clock, or a clock stepped back to where it was) the next reading repeats
Tick ==
    /\ now < MaxClock
    /\ now' = now + 1
    /\ UNCHANGED << run, Tasks, disk, mu, pc, cur, faults, scen, files, dlg, disp >>

\* the user deletes the file that was last attached from
RemoveSource ==
    /\ dlg.src \in SrcPaths /\ files[dlg.src] # NoFile
    /\ files' = [files EXCEPT ![dlg.src] = NoFile]
    /\ UNCHANGED << run, Tasks, disk, mu, pc, cur, faults, scen, now, dlg, disp >>

\* the user overwrites the file that was last attached from
ChangeSource ==
    /\ dlg.src \in SrcPaths /\ files[dlg.src] \notin {NoFile, "edited"}
    /\ files' = [files EXCEPT ![dlg.src] = "edited"]
    /\ UNCHANGED << run, Tasks, disk, mu, pc, cur, faults, scen, now, dlg, disp >>

(* ----------------------------- the file-picker program ----------------- *)

\* a fresh data directory; the user's files are in the home directory
InitPicker ==
    /\ run = "running"
    /\ Tasks = << >>
    /\ disk = Absent
    /\ mu = Free
    /\ pc = [t \in Threads |-> "idle"]
    /\ cur = [t \in Threads |-> NoCall]
    /\ faults = 0
    /\ scen = NoScen
    /\ files = HomeFiles /\ now = 1 /\ dlg = NoDlg /\ disp = NoDisp

\* the event loop of src/main.go: one goroutine serves the menu
NextPicker ==
    \/ \E entered \in EntryTexts, fp \in {""} \cup {p \in SrcPaths : files[p] # NoFile} :
          showAddTaskDialogPicker(entered, fp)
    \/ SaveOpen("ev")
    \/ SaveWrite("ev")
    \/ Return("ev")
    \/ Tick

SpecPicker == InitPicker /\ [][NextPicker]_vars

\* the tasks in the store, as a set
InStore == {Tasks[i] : i \in 1 .. Len(Tasks)}

\* C21: every task in the store has a non-empty attachment_path exactly when
\* its attachment_type is image or audio
C21_PathIffTyped ==
    \A t \in InStore :
        (t.attachment_path # "") <=> (t.attachment_type \in {AttachmentImage, AttachmentAudio})

\* C23: two ingestions never produce the same destination path, so no step
\* rewrites or truncates an attachment file that a task in the store references
C23_NamesNeverCollide ==
    [][\A p \in DstPaths :
          (\E t \in InStore : t.attachment_path = p) => files'[p] = files[p]]_vars

(* ----------------------------- the clipboard --------------------------- *)

\* data: URLs the clipboard can hold, with what decodeDataURLToFile finds in
\* them: whether the part before the comma contains ";base64", the media type
\* before the first ";", and the bytes base64.StdEncoding decodes ("" when the
\* payload is no base64 or decodes to nothing)
DataURLs ==
    {[txt |-> "data:image/png;base64,iVBO", base64 |-> TRUE, media |-> "image/png",
      dec |-> "png2"],
     [txt |-> "data:audio/mpeg;base64,SUQz", base64 |-> TRUE, media |-> "audio/mpeg",
      dec |-> "mp3b"],
     [txt |-> "data:text/plain;base64,aGk=", base64 |-> TRUE, media |-> "text/plain",
      dec |-> "hi"],
     [txt |-> "data:image/png;base64,@@", base64 |-> TRUE, media |-> "image/png",
      dec |-> ""]}

\* the clipboards of the model: every text clipboard.ReadAll can return next
\* to no image (`pngpaste -` prints nothing: no image on the clipboard,
\* pngpaste not installed, or GOOS is not darwin), and the bytes of a PNG next
\* to no text and next to a plain text
Clipboards ==
    {[image |-> "", raw |-> r] :
        r \in {"", " buy milk ", " /home/u/memo.mp3 ", SrcNotes, "~/memo.mp3"}
              \cup {d.txt : d \in DataURLs}}
    \cup {[image |-> "png3", raw |-> r] : r \in {"", " buy milk "}}

\* strings.HasPrefix(strings.ToLower(txt), "data:")
HasDataPrefix(txt) == \E d \in DataURLs : d.txt = txt

DataURL(txt) == CHOOSE d \in DataURLs : d.txt = txt

\* the media-type switch of decodeDataURLToFile: extension and type
MediaExt(media) ==
    CASE media = "image/png" -> [ext |-> "png", at |-> AttachmentImage]
      [] media = "image/jpeg" -> [ext |-> "jpg", at |-> AttachmentImage]
      [] media = "audio/mpeg" -> [ext |-> "mp3", at |-> AttachmentAudio]
      [] media \in {"audio/mp4", "audio/x-m4a"} -> [ext |-> "m4a", at |-> AttachmentAudio]
      [] OTHER -> [ext |-> "bin", at |-> AttachmentNone]

\* looksLikePath when GOOS is not windows: the text starts with /, ./, ../ or ~
looksLikePath(txt) == txt \in SrcPaths \cup {"~/memo.mp3"}

\* the path fileExists hands to os.Stat: a leading ~ is replaced by the home directory
Expand(p) == IF p = "~/memo.mp3" THEN SrcMemo ELSE p

\* fileExists(p) on the file system F
fileExists(F, p) == F[Expand(p)] # NoFile

\* os.WriteFile(dst, bytes, 0o644) on the file system F: the open can fail and
\* leave F alone; after the O_TRUNC open the write is complete or stops with an error
WriteOutcomes(F, dst, bytes) ==
    {[files |-> [F EXCEPT ![dst] = bytes], err |-> "nil", used |-> 0]}
    \cup {[files |-> F, err |-> "io", used |-> 1]}
    \cup {[files |-> [F EXCEPT ![dst] = c], err |-> "io", used |-> 1] : c \in {"", Cut(bytes)}}

\* a variant of ClipResult that reports an error when a step has failed
ClipResultFailsOnFailure(F, p, at, txt, err, used, failed, src, got) ==
    [files |-> F, p |-> p, at |-> at, txt |-> txt,
     err |-> IF failed THEN "step failed" ELSE err, used |-> used,
     failed |-> failed, src |-> src, got |-> got]

\* a variant of ClipResult that returns a text next to every attachment path
ClipResultBoth(F, p, at, txt, err, used, failed, src, got) ==
    [files |-> F, p |-> p, at |-> at, txt |-> IF p # "" THEN "pasted" ELSE txt,
     err |-> err, used |-> used, failed |-> failed, src |-> src, got |-> got]

\* the result tuple of tryClipboard with the file system it leaves; used counts
\* the file-system failures, failed says that the result is the fallback after a
\* failed step, src and got are the file copied and the bytes read from it
ClipResult(F, p, at, txt, err, used, failed, src, got) ==
    [files |-> F, p |-> p, at |-> at, txt |-> txt, err |-> err, used |-> used,
     failed |-> failed, src |-> src, got |-> got]

\* decodeDataURLToFile(txt, attachmentsDir) at clock reading n; used and failed
\* are what the raw image step has spent and seen
decodeDataURLToFile(F, txt, n, used, failed) ==
    LET d == DataURL(txt)
        m == MediaExt(d.media)
        dst == Dst(n, "clipboard." \o m.ext)
    IN  IF ~d.base64 \/ d.dec = ""
        THEN {ClipResult(F, "", AttachmentNone, txt, "nil", used, TRUE, "", "")}
        ELSE {IF w.err = "nil"
              THEN ClipResult(w.files, dst, m.at, "", "nil", used, FALSE, "", "")
              ELSE ClipResult(w.files, "", AttachmentNone, txt, "nil", used + w.used, TRUE,
                              "", "")
              : w \in WriteOutcomes(F, dst, d.dec)}

\* tryClipboard from the clipboard text on: empty, data: URL, path of a file, text
tryClipboardText(F, raw, n, used, failed) ==
    LET txt == TrimSpace(raw)
    IN  IF txt = ""
        THEN {ClipResult(F, "", AttachmentNone, "", "clipboard is empty", used, failed,
                         "", "")}
        ELSE IF HasDataPrefix(txt)
        THEN decodeDataURLToFile(F, txt, n, used, failed)
        ELSE IF looksLikePath(txt) /\ fileExists(F, txt)
        THEN LET dst == Dst(n, Base(txt))
             IN  {IF c.err = "nil"
                  THEN ClipResult(c.files, dst, ClassifyPasted(dst), "", "nil", used,
                                  FALSE, txt, c.got)
                  ELSE ClipResult(c.files, "", AttachmentNone, txt, "nil",
                                  used + (IF c.fault THEN 1 ELSE 0), TRUE, txt, "")
                  : c \in CopyOutcomes(F, txt, dst)}
        ELSE {ClipResult(F, "", AttachmentNone, txt, "nil", used, failed, "", "")}

\* tryClipboard(attachmentsDir) when pngpaste prints image, the clipboard text
\* is raw and the clock reads n
tryClipboard(F, image, raw, n) ==
    IF image = ""
    THEN tryClipboardText(F, raw, n, 0, FALSE)
    ELSE LET dst == Dst(n, "clipboard.png")
         IN  UNION {IF w.err = "nil"
                    THEN {ClipResult(w.files, dst, AttachmentImage, "", "nil", 0, FALSE,
                                     "", "")}
                    ELSE tryClipboardText(w.files, raw, n, w.used, TRUE)
                    : w \in WriteOutcomes(F, dst, image)}

(* ----------------------------- the add-task dialog --------------------- *)

\* pathToFileURL(p)
pathToFileURL(p) == "file://" \o p

\* the menu item "add task" is clicked: showAddTaskDialog starts with empty locals
OpenAddTaskDialog ==
    /\ run = "running"
    /\ pc["ev"] = "idle"
    /\ ~dlg.open
    /\ dlg' = [NoDlg EXCEPT !.open = TRUE, !.pastes = dlg.pastes,
                            !.kind = "add", !.S0 = Tasks, !.d0 = disk]
    /\ UNCHANGED << run, Tasks, disk, mu, pc, cur, faults, scen, files, now, disp >>

\* the extra button of zenity.Entry: tryClipboard, then the image goes into
\* the prefill as markdown, the audio file becomes the attachment, the text is
\* appended to the prefill
PasteFromClipboard(image, raw) ==
    /\ run = "running"
    /\ dlg.open /\ dlg.kind = "add"
    /\ dlg.pastes < MaxPastes
    /\ \E o \in tryClipboard(files, image, raw, now) :
          /\ faults + o.used <= MaxFaults
          /\ faults' = faults + o.used
          /\ files' = o.files
          /\ LET got == [dlg EXCEPT !.pastes = @ + 1, !.last = "",
                                    !.image = image, !.raw = raw,
                                    !.p = o.p, !.at = o.at, !.txt = o.txt,
                                    !.clipErr = o.err, !.failed = o.failed,
                                    !.src = o.src, !.got = o.got,
                                    !.dst = IF o.src = "" THEN "" ELSE Dst(now, Base(o.src)),
                                    !.err = IF o.src = "" THEN "none"
                                            ELSE IF o.p = "" THEN "io" ELSE "nil"]
                 imgMD == "\n\n![screenshot](" \o pathToFileURL(o.p) \o ")\n"
                 withFile ==
                     IF o.p # "" /\ o.at = AttachmentImage
                     THEN [got EXCEPT !.prefill = IF @ = "" THEN imgMD ELSE @ \o imgMD]
                     ELSE IF o.p # "" /\ o.at = AttachmentAudio
                     THEN [got EXCEPT !.attachPath = o.p, !.aType = o.at]
                     ELSE got
             IN  dlg' = IF o.err # "nil" THEN got
                        ELSE IF o.txt # ""
                        THEN [withFile EXCEPT !.prefill = IF @ = "" THEN o.txt
                                                           ELSE @ \o "\n" \o o.txt]
                        ELSE withFile
    /\ UNCHANGED << run, Tasks, disk, mu, pc, cur, scen, now, disp >>

\* a variant of SubmitEntry that does not look at the trimmed text
SubmitEntryTakesAnything(entered) ==
    /\ run = "running"
    /\ dlg.open /\ dlg.kind = "add"
    /\ enqueueCall("ev", NewTask(now, TrimSpace(entered), dlg.attachPath, dlg.aType))
    /\ dlg' = [NoDlg EXCEPT !.pastes = dlg.pastes]
    /\ UNCHANGED << files, now, disp >>

\* the OK button of zenity.Entry: an empty text is refused and the dialog goes
\* on; otherwise the task is built and handed to q.enqueue, and the dialog ends
SubmitEntry(entered) ==
    /\ run = "running"
    /\ dlg.open /\ dlg.kind = "add"
    /\ LET text == TrimSpace(entered)
       IN  IF text = ""
           THEN /\ dlg' = [dlg EXCEPT !.last = "empty text"]
                /\ UNCHANGED << run, Tasks, disk, mu, pc, cur, faults, scen,
                                files, now, disp >>
           ELSE /\ enqueueCall("ev", NewTask(now, text, dlg.attachPath, dlg.aType))
                /\ dlg' = [NoDlg EXCEPT !.pastes = dlg.pastes]
                /\ UNCHANGED << files, now, disp >>

\* the cancel button, or a dialog error: showAddTaskDialog returns
CancelEntry ==
    /\ run = "running"
    /\ dlg.open /\ dlg.kind = "add"
    /\ dlg' = [NoDlg EXCEPT !.pastes = dlg.pastes, !.kind = dlg.kind, !.last = "cancel",
                            !.S0 = dlg.S0, !.d0 = dlg.d0]
    /\ UNCHANGED << run, Tasks, disk, mu, pc, cur, faults, scen, files, now, disp >>

(* ----------------------------- the paste program ----------------------- *)

\* the add-task dialog of src/unnamed/part_000 with everything the clipboard
\* can hold, opened on a fresh data directory until the first task is in the queue
NextPaste ==
    \/ Tasks = << >> /\ OpenAddTaskDialog
    \/ \E c \in Clipboards : PasteFromClipboard(c.image, c.raw)
    \/ \E entered \in EntryTexts : SubmitEntry(entered)
    \/ CancelEntry
    \/ SaveOpen("ev")
    \/ SaveWrite("ev")
    \/ Return("ev")
    \/ Tick

SpecPaste == InitPicker /\ [][NextPaste]_vars

\* tryClipboard has returned and the dialog has not yet ended
Pasted == dlg.open /\ dlg.clipErr # "none"

\* C27: a base64 data: URI with another media type is no attachment:
\* tryClipboard returns no path for it and writes no file
C27_OtherMediaIsNoAttachment ==
    (/\ Pasted /\ dlg.image = ""
     /\ HasDataPrefix(TrimSpace(dlg.raw))
     /\ DataURL(TrimSpace(dlg.raw)).base64
     /\ DataURL(TrimSpace(dlg.raw)).media \notin {"image/png", "image/jpeg", "audio/mpeg", "audio/mp4", "audio/x-m4a"})
        => /\ dlg.p = ""
           /\ \A n \in Clock : files[Dst(n, "clipboard.bin")] = NoFile

\* C28: clipboard text that looks like a path and names an existing regular
\* file, home-relative text included, is copied into the attachments directory
\* and returned as an attachment classified by its extension (no file-system
\* failure assumed)
C28_ExistingPathIsAttached ==
    (/\ Pasted /\ dlg.image = "" /\ faults = 0
     /\ looksLikePath(TrimSpace(dlg.raw))
     /\ fileExists(files, TrimSpace(dlg.raw)))
        => /\ dlg.clipErr = "nil" /\ dlg.txt = ""
           /\ dlg.p = Dst(now, Base(TrimSpace(dlg.raw)))
           /\ dlg.at = ClassifyPasted(dlg.p)
           /\ files[dlg.p] # NoFile

C30_EmptyOrExactlyOne ==
    Pasted =>
        /\ dlg.clipErr \in {"nil", "clipboard is empty"}
        /\ dlg.clipErr # "nil" <=>
              (TrimSpace(dlg.raw) = "" /\ (dlg.image = "" \/ dlg.failed))
        /\ dlg.clipErr # "nil" => (dlg.p = "" /\ dlg.txt = "")
        /\ dlg.clipErr = "nil" => ((dlg.p # "") <=> (dlg.txt = ""))

\* an image was on the clipboard next to a text, and only the image came back
C30_Witness ==
    /\ Pasted /\ dlg.image # "" /\ dlg.raw = " buy milk "
    /\ dlg.clipErr = "nil" /\ dlg.p = Dst(now, "clipboard.png") /\ dlg.txt = ""
    /\ dlg.at = AttachmentImage

(* ----------------------------- classification by extension ------------- *)

\* a file of every name of the model is about to be attached
InitClassify ==
    /\ run = "running"
    /\ Tasks = << >>
    /\ disk = Absent
    /\ mu = Free
    /\ pc = [t \in Threads |-> "idle"]
    /\ cur = [t \in Threads |-> NoCall]
    /\ faults = 0
    /\ scen = NoScen
    /\ files = NoFiles /\ now \in Clock
    /\ \E f \in Named : dlg = [NoDlg EXCEPT !.src = Home \o "/" \o f.base]
    /\ disp = NoDisp

\* the file-picker dialog takes the file: attachPath = fp and the extension test
ClassifyPickedFile ==
    /\ dlg.attachPath = ""
    /\ dlg' = [dlg EXCEPT !.attachPath = dlg.src, !.aType = ClassifyPicked(dlg.src)]
    /\ UNCHANGED << run, Tasks, disk, mu, pc, cur, faults, scen, files, now, disp >>

\* tryClipboard takes the same file as a pasted path: the destination name and
\* the extension switch on it
ClassifyPastedFile ==
    /\ dlg.p = ""
    /\ LET dst == Dst(now, Base(dlg.src))
       IN  dlg' = [dlg EXCEPT !.dst = dst, !.p = dst, !.at = ClassifyPasted(dst)]
    /\ UNCHANGED << run, Tasks, disk, mu, pc, cur, faults, scen, files, now, disp >>

NextClassify == ClassifyPickedFile \/ ClassifyPastedFile

SpecClassify == InitClassify /\ [][NextClassify]_vars

\* the extension table of the specification, written out over the extensions
\* of the model in every spelling
TypeOfExt(e) ==
    IF e \in {".png", ".PNG", ".jpg", ".Jpg", ".jpeg", ".JPEG"} THEN AttachmentImage
    ELSE IF e \in {".m4a", ".M4A", ".mp3", ".Mp3"} THEN AttachmentAudio
    ELSE AttachmentNone

\* C25: the attachment type is the table's value for the extension, whatever
\* its case, on the file-picker path and on the clipboard path alike
C25_TypeByExtension ==
    /\ dlg.attachPath # "" => dlg.aType = TypeOfExt(Ext(dlg.src))
    /\ dlg.p # "" => dlg.at = TypeOfExt(Ext(dlg.src))
    /\ (dlg.attachPath # "" /\ dlg.p # "") => dlg.aType = dlg.at

\* a file with an upper-case extension has gone both ways and is an image
C25_Witness ==
    /\ dlg.src = Home \o "/shot.JPEG"
    /\ dlg.attachPath = dlg.src /\ dlg.aType = AttachmentImage
    /\ dlg.p = Dst(now, "shot.JPEG") /\ dlg.at = AttachmentImage

\* the file content c is a completely written file: one of the byte strings
\* whole files of the model hold
Whole(c) == c \in {"png1", "mp3a", "txt1", "edited", "png2", "mp3b", "hi", "png3"}

\* C22: the attachment_path of every task in the store names an existing file,
\* and at the moment a task is enqueued its attachment file is completely
\* written (a failed copy leaves no task that references it)
C22_AttachmentsExistWhole ==
    /\ \A t \in InStore :
          t.attachment_path # "" => files[t.attachment_path] # NoFile
    /\ (/\ pc["ev"] = "open" /\ cur["ev"].op = "enqueue"
        /\ cur["ev"].arg.attachment_path # "")
          => Whole(files[cur["ev"].arg.attachment_path])

(* ----------------------------- copies and their sources ---------------- *)

\* copyFile(src, dst) as tryClipboard and the file-picker dialog call it
copyFile(src, dst) ==
    /\ \E o \in CopyOutcomes(files, src, dst) :
          /\ o.fault => faults < MaxFaults
          /\ faults' = IF o.fault THEN faults + 1 ELSE faults
          /\ files' = o.files
          /\ dlg' = [NoDlg EXCEPT !.src = src, !.got = o.got, !.dst = dst, !.err = o.err]
    /\ UNCHANGED << run, Tasks, disk, mu, pc, cur, scen, now, disp >>

\* the voice memo is copied into the attachments directory, again and again,
\* while the user overwrites and deletes it
NextCopy ==
    \/ copyFile(SrcMemo, Dst(now, Base(SrcMemo)))
    \/ Tick
    \/ RemoveSource
    \/ ChangeSource

SpecCopy == InitPicker /\ [][NextCopy]_vars

\* C26: a copy that succeeded holds the bytes its source had when it was
\* copied, and still holds them after the source was deleted or changed
C26_CopyIsOwnFile ==
    dlg.err = "nil" =>
        /\ dlg.got # NoFile
        /\ files[dlg.dst] = dlg.got

\* the source of a finished copy has been deleted; the copy is as it was
C26_Witness ==
    /\ dlg.err = "nil" /\ dlg.src = SrcMemo
    /\ files[SrcMemo] = NoFile
    /\ files[dlg.dst] = "mp3a"

(* ----------------------------- the store and the attachments ----------- *)

\* the program is running on a data directory that holds the task TaskB and
\* its attachment file
InitAttach ==
    /\ run = "running"
    /\ Tasks = << TaskB >>
    /\ disk = Doc(Marshal(Tasks))
    /\ mu = Free
    /\ pc = [t \in Threads |-> "idle"]
    /\ cur = [t \in Threads |-> NoCall]
    /\ faults = 0
    /\ scen = NoScen
    /\ files = [HomeFiles EXCEPT ![TaskB.attachment_path] = "mp3a"]
    /\ now = 1
    /\ dlg = NoDlg /\ disp = NoDisp

\* every store operation, called from the event loop
NextAttach ==
    \/ \E x \in {TaskA, TaskB} : enqueue("ev", x)
    \/ peek("ev")
    \/ skip("ev")
    \/ complete("ev")
    \/ \E from \in Idx, to \in Idx : move("ev", from, to)
    \/ readAll("ev", "getAll")
    \/ SaveOpen("ev")
    \/ SaveWrite("ev")
    \/ Return("ev")
    \/ Crash
    \/ Start

SpecAttach == InitAttach /\ [][NextAttach]_vars

\* the state of the store: memory, file, lock and calls in flight
store == << run, Tasks, disk, mu, pc, cur >>

\* C24: no step of a store operation (enqueue, peek, skip, complete, move,
\* load, save) deletes or changes a file of the attachments directory
C24_StoreLeavesAttachments ==
    [][store' # store => \A p \in DstPaths : files'[p] = files[p]]_vars

\* complete has taken TaskB out of the store and its attachment file is still there
C24_Witness ==
    /\ AtReturn("ev") /\ cur["ev"].op = "complete" /\ cur["ev"].err = "nil"
    /\ cur["ev"].res = TaskB /\ TaskB \notin InStore
    /\ files[TaskB.attachment_path] = "mp3a"

(* ----------------------------- the UI dispatcher ----------------------- *)

\* everything but the dispatcher
rest == << run, Tasks, disk, mu, pc, cur, faults, scen, files, now, dlg >>

\* a blocking zenity or webview call is open on thread t
DialogOn(t) ==
    IF t = "ev" THEN disp.ev = "error"
    ELSE disp.main \in {"entry", "message", "window"}

\* the event loop is in its select
AtSelect == run = "running" /\ disp.ev = "select" /\ pc["ev"] = "idle"

\* mAdd.ClickedCh or mShow.ClickedCh: `uiDispatch <- func() {...}`.  The
\* channel is unbuffered: the goroutine stays in the send until the dispatch
\* loop receives.
EvSubmit(fn) ==
    /\ AtSelect
    /\ Len(disp.sent) < MaxOps
    /\ disp' = [disp EXCEPT !.ev = "send", !.fn = fn, !.id = Len(disp.sent) + 1,
                            !.sent = Append(@, fn)]
    /\ UNCHANGED rest

\* mSkip.ClickedCh: q.skip() on the event-loop goroutine
EvSkip == AtSelect /\ skip("ev")

\* mDone.ClickedCh: q.complete() on the event-loop goroutine
EvComplete == AtSelect /\ complete("ev")

\* q.skip() or q.complete() returns to the event loop: on an error
\* zenity.Error is called right there, then updateTooltip()
EvReturn ==
    /\ disp.ev = "select"
    /\ ReturnCall("ev")
    /\ disp' = [disp EXCEPT !.ev = IF cur["ev"].err # "nil" THEN "error" ELSE "tooltip"]
    /\ UNCHANGED << files, now, dlg >>

\* the user closes the error dialog of the event loop
EvErrorClosed ==
    /\ run = "running" /\ disp.ev = "error"
    /\ disp' = [disp EXCEPT !.ev = "tooltip"]
    /\ UNCHANGED rest

\* updateTooltip() on the event loop: q.mu.Lock(); len(q.Tasks); q.mu.Unlock()
EvTooltip ==
    /\ run = "running" /\ disp.ev = "tooltip" /\ CanLock("ev")
    /\ disp' = [disp EXCEPT !.ev = "select"]
    /\ UNCHANGED rest

\* mQuit.ClickedCh: systray.Quit(); return.  The goroutine ends; nothing
\* closes uiDispatch.
EvQuit ==
    /\ AtSelect
    /\ disp' = [disp EXCEPT !.ev = "returned", !.quit = TRUE]
    /\ UNCHANGED rest

\* a variant of MainReceive that starts the closure with `go fn()` and goes
\* on receiving
MainReceiveSpawns ==
    /\ run = "running" /\ disp.ev = "send" /\ disp.main = "recv"
    /\ disp' = [disp EXCEPT !.ev = "select", !.fn = "", !.id = 0,
                            !.trace = Append(@, [at |-> "start", id |-> disp.id])]
    /\ UNCHANGED rest

\* `for fn := range uiDispatch { if fn != nil { fn() } }`: the receive meets
\* the send of the event loop, the sender goes back to its select and the
\* closure starts on the main thread
MainReceive ==
    /\ run = "running" /\ disp.ev = "send" /\ disp.main = "recv"
    /\ disp' = [disp EXCEPT !.ev = "select", !.fn = "", !.id = 0,
                            !.main = IF disp.fn = "add" THEN "entry" ELSE "show",
                            !.running = disp.id,
                            !.trace = Append(@, [at |-> "start", id |-> disp.id])]
    /\ UNCHANGED rest

\* fn() returns and the loop goes back to the receive
Received == [disp EXCEPT !.main = "recv", !.running = 0,
                         !.trace = Append(@, [at |-> "end", id |-> disp.running])]

\* showAddTaskDialog, zenity.Entry cancelled: return, then updateTooltip()
MainEntryCancel ==
    /\ run = "running" /\ disp.main = "entry"
    /\ disp' = [disp EXCEPT !.main = "tooltip"]
    /\ UNCHANGED rest

\* showAddTaskDialog, zenity.Entry answered.  An empty text: zenity.Error and
\* return.  Otherwise (the user answers No to the attachment question) the
\* task is built and q.enqueue is called on the main thread.
MainEntry(entered) ==
    /\ run = "running" /\ disp.main = "entry"
    /\ LET text == TrimSpace(entered)
       IN  IF text = ""
           THEN /\ disp' = [disp EXCEPT !.main = "message"]
                /\ UNCHANGED rest
           ELSE /\ enqueueCall("ui", NewTask(now, text, "", AttachmentNone))
                /\ disp' = [disp EXCEPT !.main = "call"]
                /\ UNCHANGED << files, now, dlg >>

\* showFirstTaskDialog: q.peek() on the main thread
MainPeek ==
    /\ disp.main = "show"
    /\ peek("ui")

\* q.enqueue or q.peek returns to the closure: zenity.Info or zenity.Error
\* after enqueue, zenity.Info ("queue is empty") or the webview after peek
MainReturn ==
    /\ disp.main \in {"call", "show"}
    /\ ReturnCall("ui")
    /\ disp' = [disp EXCEPT !.main = IF @ = "call" THEN "message" ELSE "window"]
    /\ UNCHANGED << files, now, dlg >>

\* the user closes the message of showAddTaskDialog or the window of
\* showFirstTaskDialog
MainClosed ==
    /\ run = "running" /\ disp.main \in {"message", "window"}
    /\ disp' = IF disp.main = "message" THEN [disp EXCEPT !.main = "tooltip"]
               ELSE Received
    /\ UNCHANGED rest

\* updateTooltip() at the end of the "add" closure
MainTooltip ==
    /\ run = "running" /\ disp.main = "tooltip" /\ CanLock("ui")
    /\ disp' = Received
    /\ UNCHANGED rest

\* the program of the a.md listing on a fresh data directory
NextDispatch ==
    \/ \E fn \in {"add", "show"} : EvSubmit(fn)
    \/ EvSkip
    \/ EvComplete
    \/ EvReturn
    \/ EvErrorClosed
    \/ EvTooltip
    \/ EvQuit
    \/ MainReceive
    \/ MainEntryCancel
    \/ \E entered \in EntryTexts : MainEntry(entered)
    \/ MainPeek
    \/ MainReturn
    \/ MainClosed
    \/ MainTooltip
    \/ \E t \in Threads : SaveOpen(t)
    \/ \E t \in Threads : SaveWrite(t)

SpecDispatch == Init /\ [][NextDispatch]_vars

C32_QuitClosesChannel == disp.quit => disp.closed

\* C34: no blocking UI call (entry, question, file picker, info, error,
\* preview window) is open on a thread other than the main (UI-dispatch) thread
C34_DialogsOnlyOnUiThread == \A t \in Threads : DialogOn(t) => t = "ui"

(* ----------------------------- the reorder dialog ---------------------- *)

\* what the user can type into the entry of reorderTasksDialog
ReorderInputs == {"", "2 1", "1->2", "2 2", "9 1", "0 1", "x"}

\* parseMove on the inputs of the model: "->" becomes a blank, two fields,
\* both numbers, both >= 1
parseMove(x) ==
    CASE x = "2 1" -> [ok |-> TRUE, a |-> 2, b |-> 1]
      [] x = "1->2" -> [ok |-> TRUE, a |-> 1, b |-> 2]
      [] x = "2 2" -> [ok |-> TRUE, a |-> 2, b |-> 2]
      [] x = "9 1" -> [ok |-> TRUE, a |-> 9, b |-> 1]
      [] OTHER -> [ok |-> FALSE, a |-> 0, b |-> 0]

\* the event loop waits in its select: no store call and no dialog is open
NoHandler == run = "running" /\ pc["ev"] = "idle" /\ ~dlg.open

\* the menu item "all tasks": showAllTasksDialog shows renderQueueList(q) and
\* the user presses the extra button, which starts reorderTasksDialog
\* (closing the list instead changes nothing)
OpenReorder ==
    /\ NoHandler
    /\ dlg' = [NoDlg EXCEPT !.open = TRUE, !.pastes = dlg.pastes,
                            !.kind = "reorder", !.S0 = Tasks, !.d0 = disk]
    /\ UNCHANGED << run, Tasks, disk, mu, pc, cur, faults, scen, files, now, disp >>

\* the OK button of the reorder entry: an empty line ends the dialog, a line
\* parseMove refuses gets zenity.Error and the loop goes on, anything else is
\* q.move(from-1, to-1), after which (error or not) the loop goes on
ReorderEntry(input) ==
    /\ run = "running" /\ pc["ev"] = "idle"
    /\ dlg.open /\ dlg.kind = "reorder"
    /\ LET trim == TrimSpace(input)
           m == parseMove(trim)
       IN  IF trim = "" \/ ~m.ok
           THEN /\ dlg' = IF trim = ""
                          THEN [NoDlg EXCEPT !.pastes = dlg.pastes, !.kind = dlg.kind,
                                             !.last = "done", !.S0 = dlg.S0, !.d0 = dlg.d0]
                          ELSE [dlg EXCEPT !.last = "bad format"]
                /\ UNCHANGED << run, Tasks, disk, mu, pc, cur, faults, scen,
                                files, now, disp >>
           ELSE move("ev", m.a - 1, m.b - 1)

\* a variant of ReorderCancel that puts q.Tasks back to what it was when the
\* dialog started
ReorderCancelRestores ==
    /\ run = "running" /\ pc["ev"] = "idle"
    /\ dlg.open /\ dlg.kind = "reorder"
    /\ Tasks' = dlg.S0
    /\ dlg' = [NoDlg EXCEPT !.pastes = dlg.pastes, !.kind = dlg.kind, !.last = "cancel",
                            !.S0 = dlg.S0, !.d0 = dlg.d0]
    /\ UNCHANGED << run, disk, mu, pc, cur, faults, scen, files, now, disp >>

\* the cancel button ("done") of the reorder entry: reorderTasksDialog returns
ReorderCancel ==
    /\ run = "running" /\ pc["ev"] = "idle"
    /\ dlg.open /\ dlg.kind = "reorder"
    /\ dlg' = [NoDlg EXCEPT !.pastes = dlg.pastes, !.kind = dlg.kind, !.last = "cancel",
                            !.S0 = dlg.S0, !.d0 = dlg.d0]
    /\ UNCHANGED << run, Tasks, disk, mu, pc, cur, faults, scen, files, now, disp >>

\* the data directory holds two tasks
InitReorder ==
    /\ run = "running"
    /\ Tasks = << TaskA, TaskB >>
    /\ disk = Doc(Marshal(Tasks))
    /\ mu = Free
    /\ pc = [t \in Threads |-> "idle"]
    /\ cur = [t \in Threads |-> NoCall]
    /\ faults = 0
    /\ scen = NoScen
    /\ files = [HomeFiles EXCEPT ![TaskB.attachment_path] = "mp3a"]
    /\ now = 1
    /\ dlg = NoDlg /\ disp = NoDisp

\* the dialogs of src/unnamed/part_000 that the user can cancel, one after
\* the other on the event loop (the paste button of the add-task dialog is
\* left to the paste program)
NextReorder ==
    \/ OpenReorder
    \/ \E input \in ReorderInputs : ReorderEntry(input)
    \/ ReorderCancel
    \/ NoHandler /\ OpenAddTaskDialog
    \/ \E entered \in EntryTexts : SubmitEntry(entered)
    \/ CancelEntry
    \/ SaveOpen("ev")
    \/ SaveWrite("ev")
    \/ Return("ev")

SpecReorder == InitReorder /\ [][NextReorder]_vars

HandlerReturn ==
    /\ disp.ev = "select"
    /\ ReturnCall("ev")
    /\ disp' = [disp EXCEPT !.ev = CASE cur["ev"].op = "enqueue" -> "message"
                                     [] cur["ev"].err # "nil" -> "message"
                                     [] dlg.open -> "select"
                                     [] OTHER -> "tooltip"]
    /\ UNCHANGED << files, now, dlg >>

\* the user closes the message
MessageClosed ==
    /\ run = "running" /\ disp.ev = "message"
    /\ disp' = [disp EXCEPT !.ev = IF dlg.open THEN "select" ELSE "tooltip"]
    /\ UNCHANGED rest

\* a variant of LoopQuit in which the quit item is served by a goroutine of
\* its own, whatever the event loop is doing
LoopQuitAnyTime ==
    /\ run = "running" /\ ~disp.quit
    /\ disp' = [disp EXCEPT !.quit = TRUE]
    /\ UNCHANGED rest

\* case <-mQuit.ClickedCh of src/unnamed/part_000: one case of the select
\* that also serves every other menu item
LoopQuit == NoHandler /\ EvQuit

\* systray.Quit() makes systray.Run return on the main thread; main returns
\* and the process ends with all its goroutines
MainExit ==
    /\ run = "running" /\ disp.quit
    /\ run' = "stopped"
    /\ Tasks' = << >>
    /\ mu' = Free
    /\ pc' = [t \in Threads |-> "idle"]
    /\ cur' = [t \in Threads |-> NoCall]
    /\ dlg' = [NoDlg EXCEPT !.pastes = dlg.pastes]
    /\ disp' = [disp EXCEPT !.main = "returned"]
    /\ UNCHANGED << disk, faults, scen, files, now >>

\* the program of src/unnamed/part_000 on a data directory with two tasks:
\* the menu items add, skip, complete, all tasks and quit
NextQuit ==
    \/ AtSelect /\ NoHandler /\ OpenAddTaskDialog
    \/ \E entered \in EntryTexts : disp.ev = "select" /\ SubmitEntry(entered)
    \/ disp.ev = "select" /\ CancelEntry
    \/ AtSelect /\ OpenReorder
    \/ \E input \in ReorderInputs : disp.ev = "select" /\ ReorderEntry(input)
    \/ disp.ev = "select" /\ ReorderCancel
    \/ NoHandler /\ EvSkip
    \/ NoHandler /\ EvComplete
    \/ HandlerReturn
    \/ MessageClosed
    \/ EvTooltip
    \/ SaveOpen("ev")
    \/ SaveWrite("ev")
    \/ LoopQuit
    \/ MainExit

SpecQuit == InitReorder /\ [][NextQuit]_vars

\* C36: when the process ends after a quit request, no store call is in
\* flight: every enqueue, skip, complete or move that was started has come
\* back from saveLocked and released the lock
C36_QuitCutsNoMutation ==
    [][(run = "running" /\ run' = "stopped") =>
          /\ disp.quit
          /\ mu = Free
          /\ \A t \in Threads : pc[t] = "idle" /\ cur[t] = NoCall]_vars

\* the process has ended after a quit request that followed a completed
\* mutation: the file holds what the last mutation wrote
C36_Witness ==
    /\ run = "stopped" /\ disp.quit
    /\ faults = 0
    /\ disk = Doc(Marshal(<< TaskB, TaskA >>))

(* ----------------------------- the data directory ---------------------- *)

\* the calls of appDataDir and newTaskQueue that create or find a directory
DirFailures == {"os.UserConfigDir", "os.MkdirAll(dir)", "os.MkdirAll(attachmentsDir)"}

\* what a queue.json of the model can hold when the program starts
StartDisks == {Absent, Empty, Partial, Doc(Marshal(<< TaskA >>)), Doc(Marshal(<< TaskA, TaskB >>))}

\* a variant of onReady that logs the directory error with log.Print and goes on
onReadyGoesOn(outcome) ==
    /\ run = "stopped"
    /\ run' = "running"
    /\ Tasks' = IF Loadable(disk) THEN Loaded(disk) ELSE << >>
    /\ disp' = [NoDisp EXCEPT !.start = outcome]
    /\ UNCHANGED << disk, mu, pc, cur, faults, scen, files, now, dlg >>

\* onReady up to the menu: appDataDir (os.UserConfigDir, os.MkdirAll) and
\* newTaskQueue (os.MkdirAll of the attachments directory, loadLocked); every
\* error is log.Fatal, which ends the process before the menu items exist
\* and before the event-loop goroutine is started
onReady(outcome) ==
    /\ run = "stopped"
    /\ IF outcome \in DirFailures
       THEN /\ run' = "fatal"
            /\ disp' = [NoDisp EXCEPT !.start = outcome]
            /\ UNCHANGED Tasks
       ELSE IF Loadable(disk)
       THEN /\ run' = "running"
            /\ Tasks' = Loaded(disk)
            /\ disp' = [NoDisp EXCEPT !.start = "ok"]
       ELSE /\ run' = "fatal"
            /\ disp' = [NoDisp EXCEPT !.start = "loadLocked"]
            /\ UNCHANGED Tasks
    /\ UNCHANGED << disk, mu, pc, cur, faults, scen, files, now, dlg >>

\* the program has not been started; the data directory is fresh or holds a
\* queue.json from an earlier run, whole or cut
InitStart ==
    /\ run = "stopped"
    /\ Tasks = << >>
    /\ disk \in StartDisks
    /\ mu = Free
    /\ pc = [t \in Threads |-> "idle"]
    /\ cur = [t \in Threads |-> NoCall]
    /\ faults = 0
    /\ scen = NoScen
    /\ files = NoFiles /\ now = 1 /\ dlg = NoDlg /\ disp = NoDisp

\* the program is started, serves skip, complete and an enqueue from its
\* event loop, is killed and is started again
NextStart ==
    \/ \E outcome \in DirFailures \cup {"ok"} : onReady(outcome)
    \/ \E x \in {TaskB, TaskC} : enqueue("ev", x)
    \/ skip("ev")
    \/ complete("ev")
    \/ SaveOpen("ev")
    \/ SaveWrite("ev")
    \/ Return("ev")
    \/ Crash

SpecStart == InitStart /\ [][NextStart]_vars

\* C37: a start in which the data directory or the attachments directory
\* cannot be created or found ends in log.Fatal with nothing loaded and no
\* store call made, and the process that has ended takes no further step
C37_DirFailureIsFatal ==
    [][/\ disp'.start \in DirFailures =>
             /\ run' = "fatal"
             /\ Tasks' = << >> /\ disk' = disk /\ mu' = Free
             /\ \A t \in Threads : pc'[t] = "idle" /\ cur'[t] = NoCall
       /\ run = "fatal" => UNCHANGED vars]_vars

\* a program that had tasks on file was killed, and its next start failed
\* on the attachments directory
C37_Witness ==
    /\ run = "fatal" /\ disp.start = "os.MkdirAll(attachmentsDir)"
    /\ disk = Doc(Marshal(<< TaskA, TaskB, TaskC >>))

(* ----------------------------- the store that locks twice -------------- *)

\* the second program of src/main.go: enqueue, skip and complete hold q.mu
\* (Lock with a deferred Unlock) and call q.save(), and q.save() begins with
\* q.mu.Lock().  sync.Mutex is not reentrant: the thread waits at "lock" for
\* the mutex it holds itself, and its deferred Unlock is never reached.
GoSaveLocks(t, c) ==
    /\ mu' = t
    /\ pc' = [pc EXCEPT ![t] = "lock"]
    /\ cur' = [cur EXCEPT ![t] = c]

\* taskQueue.enqueue of the second program, as far as the store goes
enqueueV2Call(t, x) ==
    /\ CanCall(t)
    /\ Len(Tasks) < MaxLen
    /\ Tasks' = EnqueueSeq(Tasks, x)
    /\ GoSaveLocks(t, [Entry("enqueue") EXCEPT !.arg = x])
    /\ scen' = Ticked(t)
    /\ UNCHANGED << run, disk, faults >>

\* showAddTaskDialog of the second program: the file-picker dialog, with the
\* second program's q.enqueue at its end
showAddTaskDialogV2(entered, fp) ==
    /\ run = "running"
    /\ pc["ev"] = "idle"
    /\ LET text == TrimSpace(entered)
           aType == IF fp = "" THEN AttachmentNone ELSE ClassifyPicked(fp)
           dst == Dst(now, Base(fp))
       IN  IF text = ""
           THEN /\ dlg' = [NoDlg EXCEPT !.kind = "add", !.last = "empty text"]
                /\ UNCHANGED << run, Tasks, disk, mu, pc, cur, faults, scen, files >>
           ELSE IF fp = ""
           THEN /\ enqueueV2Call("ev", NewTask(now, text, "", aType))
                /\ dlg' = NoDlg
                /\ UNCHANGED files
           ELSE \E o \in CopyOutcomes(files, fp, dst) :
                   /\ o.fault => faults < MaxFaults
                   /\ files' = o.files
                   /\ dlg' = [NoDlg EXCEPT !.src = fp, !.got = o.got, !.dst = dst,
                                           !.err = o.err]
                   /\ IF o.err = "nil"
                      THEN enqueueV2Call("ev", NewTask(now, text, dst, aType))
                      ELSE /\ faults' = IF o.fault THEN faults + 1 ELSE faults
                           /\ UNCHANGED << run, Tasks, disk, mu, pc, cur, scen >>
    /\ UNCHANGED << now, disp >>

\* taskQueue.skip of the second program
skipV2(t) ==
    /\ CanCall(t)
    /\ IF Len(Tasks) <= 1
       THEN /\ ReturnEarly(t, Entry("skip"))
            /\ UNCHANGED Tasks
       ELSE /\ Tasks' = SkipSeq(Tasks)
            /\ GoSaveLocks(t, Entry("skip"))
    /\ scen' = Ticked(t)
    /\ UNCHANGED << run, disk, faults, ingest >>

\* taskQueue.complete of the second program
completeV2(t) ==
    /\ CanCall(t)
    /\ IF Len(Tasks) = 0
       THEN /\ ReturnEarly(t, [Entry("complete") EXCEPT !.err = "empty"])
            /\ UNCHANGED Tasks
       ELSE /\ Tasks' = CompleteSeq(Tasks)
            /\ GoSaveLocks(t, [Entry("complete") EXCEPT !.res = Head(Tasks)])
    /\ scen' = Ticked(t)
    /\ UNCHANGED << run, disk, faults, ingest >>

\* the second program is running on a data directory of an earlier run
\* (newTaskQueue drops the load error)
InitV2 ==
    /\ run = "running"
    /\ disk \in StartDisks
    /\ Tasks = IF Loadable(disk) THEN Loaded(disk) ELSE << >>
    /\ mu = Free
    /\ pc = [t \in Threads |-> "idle"]
    /\ cur = [t \in Threads |-> NoCall]
    /\ faults = 0
    /\ scen = NoScen
    /\ files = HomeFiles /\ now = 1 /\ dlg = NoDlg /\ disp = NoDisp

\* the second program: its add-task dialog on the event loop and its store
\* called from two threads; the user kills the program that hangs and
\* starts it again
NextV2 ==
    \/ \E entered \in EntryTexts, fp \in {"", SrcMemo} :
          showAddTaskDialogV2(entered, fp)
    \/ \E t \in Threads : skipV2(t)
    \/ \E t \in Threads : completeV2(t)
    \/ \E t \in Threads : peek(t)
    \/ \E t \in Threads : Return(t)
    \/ Crash
    \/ StartLenient
    \/ Tick

SpecV2 == InitV2 /\ [][NextV2]_vars

\* C38: no call of enqueue, skip or complete waits for the store's mutex
\* while it holds that mutex itself (so every call comes to its return)
C38_NoCallWaitsForItsOwnLock ==
    \A t \in Threads : ~(pc[t] = "lock" /\ mu = t)

(* ----------------------------- empty task texts ------------------------ *)

\* C39: no task in the store has a text that is empty after trimming, and
\* the step that answers an empty input with the error message changes
\* neither q.Tasks nor queue.json and starts no store call, whatever was
\* pasted before
C39_NoEmptyText ==
    [][/\ \A i \in 1 .. Len(Tasks') : TrimSpace(Tasks'[i].text) # ""
       /\ (dlg'.last = "empty text" /\ dlg' # dlg) =>
             (Tasks' = Tasks /\ disk' = disk /\ pc' = pc /\ cur' = cur)]_vars

\* after a paste that filled the prefill and kept an audio attachment, an
\* empty text was submitted: the error was shown and the dialog is still open
C39_Witness ==
    /\ dlg.open /\ dlg.last = "empty text"
    /\ dlg.prefill # "" /\ dlg.attachPath # ""
    /\ Tasks = << >> /\ disk = Absent

====
